---- MODULE Spec2Model ----
(***************************************************************************)
(* State-machine model of src/server.js (ONKAAN website-builder backend):  *)
(* the page store endpoints (/template/:filename, /:page, /update,         *)
(* /api/load/:id, /reset) and the fixed-set publish pipeline (/publish).   *)
(*                                                                         *)
(* Every Express handler is an async function.  A handler runs             *)
(* synchronously up to its first await, is suspended while the pool        *)
(* executes its statement, and is resumed later; other handlers run in     *)
(* between.  Each of these three stages is one action here.                *)
(*                                                                         *)
(* src/server.js holds the server twice (lines 1-240 and 242-460).  The    *)
(* two copies differ only in the wording of the database-error fragment    *)
(* of /template; the first copy is the one modelled.  The emoji of the     *)
(* literal messages are left out of the strings.                           *)
(***************************************************************************)
EXTENDS Integers, Sequences, FiniteSets, TLC

VARIABLES
    pages,          \* table `pages`: set of rows [filename, content]
    templates,      \* names of the files in <dir>/templates
    tempDirExists,  \* whether <dir>/temp_publish exists
    staged,         \* files of <dir>/temp_publish: name -> content
    zip,            \* the file <dir>/publish.zip
    req,            \* one record per connection: the request it carries
    crashed,        \* the process died on an uncaught exception
    saved,          \* history: content last saved under each raw name
    resetClean,     \* history: a DELETE ran and no INSERT ran since
    hist            \* history: per request, what held when its SELECT ran
                    \*   and what its publish staged

vars == <<pages, templates, tempDirExists, staged, zip, req, crashed,
          saved, resetClean, hist>>

----------------------------------------------------------------------------
(* Bounds and input sets *)

\* how many stale files temp_publish may hold when the server starts
MaxStale == 2

\* connections that carry requests at the same time
Conns == {1, 2}

Contents == {"<h1>Hi</h1>", "<p>v2</p>"}

PageNames == {"about", "about.html", "product"}

PublishPath == "publish"

DriverError == "connect ECONNREFUSED 127.0.0.1:4000"

MailError == "Invalid login: 535-5.7.8"

----------------------------------------------------------------------------
(* Strings *)

EndsWith(s, suffix) ==
    /\ Len(s) >= Len(suffix)
    /\ SubSeq(s, Len(s) - Len(suffix) + 1, Len(s)) = suffix

Contains(s, part) ==
    \E i \in 1..(Len(s) - Len(part) + 1) : SubSeq(s, i, i + Len(part) - 1) = part

(* One normalization line per entry point, as in the source. *)
TemplateFilename(filename) ==
    IF ~EndsWith(filename, ".html") THEN filename \o ".html" ELSE filename

PageFilename(page) ==
    IF ~EndsWith(page, ".html") THEN page \o ".html" ELSE page

\* mutant: /update stores under the raw name
UpdateFilenameRaw(filename) == filename

UpdateFilename(filename) ==
    IF ~EndsWith(filename, ".html") THEN filename \o ".html" ELSE filename

\* mutant: /api/load appends the suffix to every id
LoadWebsiteIdAppend(id) == id \o ".html"

LoadWebsiteId(id) ==
    IF ~EndsWith(id, ".html") THEN id \o ".html" ELSE id

----------------------------------------------------------------------------
(* The pool's statements on table `pages` *)

\* SELECT content FROM pages WHERE filename = ? LIMIT 1
SelectContent(table, filename) ==
    LET hit == {row \in table : row.filename = filename}
    IN  IF hit = {} THEN <<>> ELSE <<CHOOSE row \in hit : TRUE>>

\* mutant: the table has no unique key, every INSERT adds a row
InsertRow(table, filename, content) ==
    table \cup {[filename |-> filename, content |-> content]}

\* mutant: INSERT IGNORE, the first stored content stays
InsertIgnore(table, filename, content) ==
    IF \E row \in table : row.filename = filename THEN table
    ELSE table \cup {[filename |-> filename, content |-> content]}

\* INSERT INTO pages (filename, content) VALUES (?, ?)
\*   ON DUPLICATE KEY UPDATE content = VALUES(content)
InsertOnDuplicateUpdate(table, filename, content) ==
    {row \in table : row.filename # filename}
        \cup {[filename |-> filename, content |-> content]}

\* mutant: the DELETE carries a WHERE clause
DeleteOnePage(table) == {row \in table : row.filename # "about.html"}

\* DELETE FROM pages
DeleteAll(table) == {}

----------------------------------------------------------------------------
(* Responses *)

NoResponse == [status |-> 0, type |-> "none", body |-> <<>>]

\* res.type("html").send(content): the status stays 200
TypeHtmlSend(content) ==
    [status |-> 200, type |-> "html", body |-> [text |-> content]]

\* res.status(n).send(text)
StatusSend(status, text) ==
    [status |-> status, type |-> "html", body |-> [text |-> text]]

\* res.sendFile(filePath)
SendFile(filePath) ==
    [status |-> 200, type |-> "file", body |-> [path |-> filePath]]

\* res.status(n).json(obj)
StatusJson(status, obj) == [status |-> status, type |-> "json", body |-> obj]

TemplatesPath(filename) == "templates/" \o filename

ExistsSync(filename) == filename \in templates

NotFoundFragment(filename) ==
    "<!DOCTYPE html><html><body><h3>Template \"" \o filename
        \o "\" not found</h3></body></html>"

TemplateDbErrorFragment ==
    "<!DOCTYPE html><html><body><h3>Database error while loading template</h3></body></html>"

----------------------------------------------------------------------------
(* Requests *)

EmptyDir == [f \in {} |-> ""]

NoFile == [exists |-> FALSE, by |-> 0, files |-> EmptyDir, complete |-> FALSE]

Idle ==
    [route |-> "none", param |-> "", body |-> <<>>, key |-> "", pc |-> "idle",
     rows |-> <<>>, err |-> "", outcome |-> "none", resp |-> NoResponse,
     closed |-> FALSE, mail |-> "none", attached |-> NoFile,
     reports |-> 0, queries |-> 0, archives |-> 0, mails |-> 0]

NoSnapshot ==
    [stored |-> "", expect |-> "", clean |-> FALSE, assembled |-> EmptyDir,
     raced |-> FALSE]

Free(c) == ~crashed /\ req[c].pc \in {"idle", "done"}

Start(c, r) ==
    /\ req' = [req EXCEPT ![c] = r]
    /\ hist' = [hist EXCEPT ![c] = NoSnapshot]

Falsy(body, field) == field \notin DOMAIN body \/ body[field] = ""

\* req.body[field]; "" stands for undefined
Field(body, field) == IF field \in DOMAIN body THEN body[field] ELSE ""

UpdateBodies ==
    [filename : PageNames, content : Contents]
        \cup { [filename |-> "", content |-> "<h1>Hi</h1>"],
               [filename |-> "about", content |-> ""],
               [content |-> "<h1>Hi</h1>"],
               [filename |-> "about"] }

Names == PageNames \cup {PublishPath}

\* a fresh deployment: every listed template is there, nothing was published
Init ==
    /\ pages = {}
    /\ templates = {"homepage.html", "product.html", "buynow.html",
                    "index.js", "style.css"}
    /\ tempDirExists = FALSE
    /\ staged = EmptyDir
    /\ zip = NoFile
    /\ req = [c \in Conns |-> Idle]
    /\ crashed = FALSE
    /\ saved = [n \in Names |-> ""]
    /\ resetClean = FALSE
    /\ hist = [c \in Conns |-> NoSnapshot]

----------------------------------------------------------------------------
(* History kept for the properties: which raw names denote the page saved   *)
(* as f, "given with or without the .html suffix".                          *)

SameName(f, g) ==
    \/ g = f
    \/ ~EndsWith(f, ".html") /\ g = f \o ".html"
    \/ ~EndsWith(g, ".html") /\ f = g \o ".html"

\* the storage key of a raw name: the name itself when it ends in ".html"
Key(name) == IF EndsWith(name, ".html") THEN name ELSE name \o ".html"

StoredUnder(k) ==
    IF \E row \in pages : row.filename = k
    THEN (CHOOSE row \in pages : row.filename = k).content ELSE ""

Snapshot(c) ==
    [stored |-> StoredUnder(Key(req[c].param)),
     expect |-> IF req[c].param \in DOMAIN saved THEN saved[req[c].param] ELSE "",
     clean |-> resetClean,
     assembled |-> EmptyDir,
     raced |-> FALSE]

fsVars == <<templates, tempDirExists, staged, zip>>

histVars == <<saved, resetClean>>

----------------------------------------------------------------------------
(* Handlers up to their first await *)

\* app.get("/template/:filename"): normalize, issue the SELECT
TemplateArrive(c, filename) ==
    /\ Free(c)
    /\ Start(c, [Idle EXCEPT !.route = "template", !.param = filename,
                             !.key = TemplateFilename(filename), !.pc = "query",
                             !.queries = 1])
    /\ UNCHANGED <<pages, fsVars, crashed, histVars>>

\* app.get("/:page"): normalize, issue the SELECT
PageArrive(c, page) ==
    /\ Free(c)
    /\ Start(c, [Idle EXCEPT !.route = "page", !.param = page,
                             !.key = PageFilename(page), !.pc = "query",
                             !.queries = 1])
    /\ UNCHANGED <<pages, fsVars, crashed, histVars>>

MissingFields == StatusJson(400, [success |-> FALSE, error |-> "Missing filename or content"])

\* mutant: only the filename is validated
UpdateValidateFilenameOnly(body) ==
    IF Falsy(body, "filename")
    THEN [Idle EXCEPT !.route = "update", !.body = body, !.pc = "done",
                      !.outcome = "sent", !.resp = MissingFields, !.reports = 1]
    ELSE [Idle EXCEPT !.route = "update", !.body = body, !.param = body.filename,
                      !.key = UpdateFilename(body.filename), !.pc = "query",
                      !.queries = 1]

\* app.post("/update"): validate, normalize, issue the INSERT
UpdateValidate(body) ==
    IF Falsy(body, "filename") \/ Falsy(body, "content")
    THEN [Idle EXCEPT !.route = "update", !.body = body, !.pc = "done",
                      !.outcome = "sent", !.resp = MissingFields, !.reports = 1]
    ELSE [Idle EXCEPT !.route = "update", !.body = body, !.param = body.filename,
                      !.key = UpdateFilename(body.filename), !.pc = "query",
                      !.queries = 1]

UpdateArrive(c, body) ==
    /\ Free(c)
    /\ Start(c, UpdateValidate(body))
    /\ UNCHANGED <<pages, fsVars, crashed, histVars>>

\* app.get("/api/load/:id"): normalize, issue the SELECT
LoadArrive(c, id) ==
    /\ Free(c)
    /\ Start(c, [Idle EXCEPT !.route = "load", !.param = id,
                             !.key = LoadWebsiteId(id), !.pc = "query",
                             !.queries = 1])
    /\ UNCHANGED <<pages, fsVars, crashed, histVars>>

\* app.post("/reset"): issue the DELETE
ResetArrive(c) ==
    /\ Free(c)
    /\ Start(c, [Idle EXCEPT !.route = "reset", !.pc = "query", !.queries = 1])
    /\ UNCHANGED <<pages, fsVars, crashed, histVars>>

----------------------------------------------------------------------------
(* The pool executes the awaited statement, or rejects it *)

\* mutant: the pool hands out no connection while a publish is stalled
AwaitingBehindStalled(c, routes) ==
    /\ ~crashed /\ req[c].pc = "query" /\ req[c].route \in routes
    /\ \A d \in Conns : req[d].pc # "hung"

Awaiting(c, routes) == ~crashed /\ req[c].pc = "query" /\ req[c].route \in routes

QuerySelect(c) ==
    /\ Awaiting(c, {"template", "page", "load"})
    /\ req' = [req EXCEPT ![c].pc = "resume",
                          ![c].rows = SelectContent(pages, req[c].key)]
    /\ hist' = [hist EXCEPT ![c] = Snapshot(c)]
    /\ UNCHANGED <<pages, fsVars, crashed, histVars>>

QueryInsert(c) ==
    /\ Awaiting(c, {"update"})
    /\ pages' = InsertOnDuplicateUpdate(pages, req[c].key, Field(req[c].body, "content"))
    /\ req' = [req EXCEPT ![c].pc = "resume"]
    /\ saved' = [n \in DOMAIN saved |->
                    IF SameName(Field(req[c].body, "filename"), n)
                    THEN Field(req[c].body, "content") ELSE saved[n]]
    /\ resetClean' = FALSE
    /\ UNCHANGED <<fsVars, crashed, hist>>

QueryDelete(c) ==
    /\ Awaiting(c, {"reset"})
    /\ pages' = DeleteAll(pages)
    /\ req' = [req EXCEPT ![c].pc = "resume"]
    /\ saved' = [n \in DOMAIN saved |-> ""]
    /\ resetClean' = TRUE
    /\ UNCHANGED <<fsVars, crashed, hist>>

QueryFails(c) ==
    /\ Awaiting(c, {"template", "page", "load", "update", "reset"})
    /\ req' = [req EXCEPT ![c].pc = "resume", ![c].err = DriverError]
    /\ UNCHANGED <<pages, fsVars, crashed, histVars, hist>>

----------------------------------------------------------------------------
(* Handlers after the await *)

Resumed(c, route) == ~crashed /\ req[c].pc = "resume" /\ req[c].route = route

Sent(r, resp) ==
    [r EXCEPT !.pc = "done", !.outcome = "sent", !.resp = resp,
              !.reports = @ + 1]

\* mutant: the preview answers 404 when nothing is found
TemplateResponse404(rows, err, filename) ==
    IF err # "" THEN TypeHtmlSend(TemplateDbErrorFragment)
    ELSE IF Len(rows) > 0 THEN TypeHtmlSend(rows[1].content)
    ELSE IF ExistsSync(filename) THEN SendFile(TemplatesPath(filename))
    ELSE StatusSend(404, "Not found")

TemplateResponse(rows, err, filename) ==
    IF err # "" THEN TypeHtmlSend(TemplateDbErrorFragment)
    ELSE IF Len(rows) > 0 THEN TypeHtmlSend(rows[1].content)
    ELSE IF ExistsSync(filename) THEN SendFile(TemplatesPath(filename))
    ELSE TypeHtmlSend(NotFoundFragment(filename))

TemplateResume(c) ==
    /\ Resumed(c, "template")
    /\ req' = [req EXCEPT ![c] =
                 Sent(@, TemplateResponse(req[c].rows, req[c].err, req[c].key))]
    /\ UNCHANGED <<pages, fsVars, crashed, histVars, hist>>

\* mutant: the static file is looked up before the rows
PageResponseStaticFirst(rows, err, filename) ==
    IF err # "" THEN StatusSend(500, "Database error")
    ELSE IF ExistsSync(filename) THEN SendFile(TemplatesPath(filename))
    ELSE IF Len(rows) > 0 THEN TypeHtmlSend(rows[1].content)
    ELSE NoResponse

\* the response of /:page, or NoResponse when it calls next()
PageResponse(rows, err, filename) ==
    IF err # "" THEN StatusSend(500, "Database error")
    ELSE IF Len(rows) > 0 THEN TypeHtmlSend(rows[1].content)
    ELSE IF ExistsSync(filename) THEN SendFile(TemplatesPath(filename))
    ELSE NoResponse

UpdateResponse(err) ==
    IF err # "" THEN StatusJson(500, [success |-> FALSE, error |-> "Error saving file"])
    ELSE StatusJson(200, [success |-> TRUE, message |-> "Saved successfully!"])

UpdateResume(c) ==
    /\ Resumed(c, "update")
    /\ req' = [req EXCEPT ![c] = Sent(@, UpdateResponse(req[c].err))]
    /\ UNCHANGED <<pages, fsVars, crashed, histVars, hist>>

LoadResponse(rows, err) ==
    IF err # "" THEN StatusJson(500, [success |-> FALSE, error |-> "Failed to load template"])
    ELSE IF Len(rows) > 0
    THEN StatusJson(200, [success |-> TRUE, template |-> rows[1].content])
    ELSE StatusJson(200, [success |-> FALSE, error |-> "No saved template found"])

LoadResume(c) ==
    /\ Resumed(c, "load")
    /\ req' = [req EXCEPT ![c] = Sent(@, LoadResponse(req[c].rows, req[c].err))]
    /\ UNCHANGED <<pages, fsVars, crashed, histVars, hist>>

ResetResponse(err) ==
    IF err # "" THEN StatusJson(500, [success |-> FALSE, error |-> "Error resetting pages"])
    ELSE StatusJson(200, [success |-> TRUE])

ResetResume(c) ==
    /\ Resumed(c, "reset")
    /\ req' = [req EXCEPT ![c] = Sent(@, ResetResponse(req[c].err))]
    /\ UNCHANGED <<pages, fsVars, crashed, histVars, hist>>

\* /:page calls next() and the publish route takes the request over
FallsToPublish(c) ==
    /\ Resumed(c, "page")
    /\ req[c].param = PublishPath
    /\ PageResponse(req[c].rows, req[c].err, req[c].key) = NoResponse

\* /:page answers, or calls next() and no later route matches the path
PageResume(c) ==
    /\ Resumed(c, "page")
    /\ ~FallsToPublish(c)
    /\ LET resp == PageResponse(req[c].rows, req[c].err, req[c].key)
       IN  req' = [req EXCEPT ![c] =
                     IF resp # NoResponse THEN Sent(@, resp)
                     ELSE [@ EXCEPT !.pc = "done", !.outcome = "next",
                                    !.reports = @ + 1]]
    /\ UNCHANGED <<pages, fsVars, crashed, histVars, hist>>

----------------------------------------------------------------------------
(* app.get("/publish"): the synchronous body, then the stream callbacks *)

\* history: connection c touched temp_publish or publish.zip while another
\* request was between its archive start and the end of its mail send
Interfered(c, h) ==
    [d \in Conns |->
        IF d # c /\ req[d].pc \in {"archiving", "finalized", "mailing"}
        THEN [h[d] EXCEPT !.raced = TRUE] ELSE h[d]]

FilesToInclude == <<"homepage.html", "product.html", "buynow.html", "index.js", "style.css">>

\* the bytes of the file <dir>/templates/<file>
FileContent(file) == "templates/" \o file

\* mutant: the old files are left in place
ClearNothing(dir) == dir

\* fs.readdirSync(tempDir).forEach(unlinkSync)
ClearOldFiles(dir) == EmptyDir

\* filesToInclude.forEach: copy the listed files that exist
CopyFiles(dir) ==
    LET copied == {FilesToInclude[i] : i \in DOMAIN FilesToInclude} \cap templates
    IN  [f \in (DOMAIN dir) \cup copied |->
            IF f \in copied THEN FileContent(f) ELSE dir[f]]

\* fs.createWriteStream(zipPath): the file is created or truncated
CreateWriteStream(c) ==
    [exists |-> TRUE, by |-> c, files |-> EmptyDir, complete |-> FALSE]

\* mutant: the mail is sent as soon as finalize() has returned
MailAfterFinalize(r) ==
    [r EXCEPT !.pc = "mailing", !.mail = "sending", !.archives = @ + 1,
              !.mails = @ + 1]

\* the request once archive.finalize() has returned and the close listener is set
AfterFinalize(r) == [r EXCEPT !.pc = "archiving", !.archives = @ + 1]

PublishRun(c) ==
    /\ FallsToPublish(c)
    /\ tempDirExists' = TRUE
    /\ staged' = CopyFiles(ClearOldFiles(staged))
    /\ zip' = CreateWriteStream(c)
    /\ req' = [req EXCEPT ![c] = AfterFinalize(@)]
    /\ hist' = Interfered(c, [hist EXCEPT ![c].assembled = staged'])
    /\ UNCHANGED <<pages, templates, crashed, histVars>>

PublishError == StatusSend(500, "Error publishing website")

\* a synchronous fs call throws, before or after the old files were cleared
PublishThrows(c) ==
    /\ FallsToPublish(c)
    /\ \E cleared \in BOOLEAN :
          /\ tempDirExists' = (tempDirExists \/ cleared)
          /\ staged' = IF cleared THEN ClearOldFiles(staged) ELSE staged
          /\ hist' = IF cleared THEN Interfered(c, hist) ELSE hist
    /\ req' = [req EXCEPT ![c] = Sent(@, PublishError)]
    /\ UNCHANGED <<pages, templates, zip, crashed, histVars>>

\* the archiver walks temp_publish and writes the entries through the stream
ArchiveWrite(c) ==
    /\ ~crashed
    /\ req[c].pc = "archiving"
    /\ zip' = [exists |-> TRUE, by |-> c, files |-> staged, complete |-> zip.by = c]
    /\ req' = [req EXCEPT ![c].pc = "finalized"]
    /\ hist' = Interfered(c, hist)
    /\ UNCHANGED <<pages, templates, tempDirExists, staged, crashed, histVars>>

\* archive or output emits "error": no listener is registered, the error is
\* thrown out of the event loop and the process dies
ArchiveError(c) ==
    /\ ~crashed
    /\ req[c].pc = "archiving"
    /\ req' = [req EXCEPT ![c].pc = "failed"]
    /\ crashed' = TRUE
    /\ UNCHANGED <<pages, fsVars, histVars, hist>>

\* output.on("close"): the listener builds the transport and awaits sendMail
OutputClose(c) ==
    /\ ~crashed
    /\ req[c].pc = "finalized"
    /\ req' = [req EXCEPT ![c].pc = "mailing", ![c].closed = TRUE,
                          ![c].mail = "sending", ![c].mails = @ + 1]
    /\ UNCHANGED <<pages, fsVars, crashed, histVars, hist>>

MailConfirmation == StatusSend(200, "Published website sent to email!")

MailErrorResponse == StatusSend(500, "Error sending email")

\* mutant: a mail failure is reported like any publish error
MailOutcomeGeneric(r, ok) ==
    IF ok THEN Sent([r EXCEPT !.mail = "sent", !.attached = zip], MailConfirmation)
    ELSE Sent([r EXCEPT !.mail = "failed", !.err = MailError], PublishError)

\* mutant: the mail goes out without the attachment
MailOutcomeBare(r, ok) ==
    IF ok THEN Sent([r EXCEPT !.mail = "sent"], MailConfirmation)
    ELSE Sent([r EXCEPT !.mail = "failed", !.err = MailError], MailErrorResponse)

\* mutant: a failed sendMail is answered and sent again
MailOutcomeRetry(r, ok) ==
    IF ok THEN Sent([r EXCEPT !.mail = "sent", !.attached = zip], MailConfirmation)
    ELSE [Sent([r EXCEPT !.mail = "failed", !.err = MailError], MailErrorResponse)
             EXCEPT !.pc = "mailing", !.mail = "sending", !.mails = @ + 1]

\* the close listener after "await transporter.sendMail(mailOptions)"
MailOutcome(r, ok) ==
    IF ok THEN Sent([r EXCEPT !.mail = "sent", !.attached = zip], MailConfirmation)
    ELSE Sent([r EXCEPT !.mail = "failed", !.err = MailError], MailErrorResponse)

MailSent(c) ==
    /\ ~crashed
    /\ req[c].pc = "mailing"
    /\ req' = [req EXCEPT ![c] = MailOutcome(@, TRUE)]
    /\ UNCHANGED <<pages, fsVars, crashed, histVars, hist>>

MailFails(c) ==
    /\ ~crashed
    /\ req[c].pc = "mailing"
    /\ req' = [req EXCEPT ![c] = MailOutcome(@, FALSE)]
    /\ UNCHANGED <<pages, fsVars, crashed, histVars, hist>>

\* the archive's "close" or the callback of sendMail never comes: nothing in
\* the handler bounds the wait
Hangs(c) ==
    /\ ~crashed
    /\ req[c].pc \in {"archiving", "finalized", "mailing"}
    /\ req' = [req EXCEPT ![c].pc = "hung"]
    /\ UNCHANGED <<pages, fsVars, crashed, histVars, hist>>

\* bodies of POST /publish: percent-encoded html, css, js and the images
PublishPayloads ==
    { [html |-> "%3Ch1%3EHi%3C%2Fh1%3E", css |-> "", js |-> "", images |-> <<>>],
      [html |-> "%3Cb%3E", css |-> "p%7B%7D", js |-> "", images |-> <<>>] }

\* POST /publish: the routes registered for POST are /update and /reset, the
\* publish route is registered for GET only; the request passes through the
\* application unhandled and no file is touched
PublishPost(c, payload) ==
    /\ Free(c)
    /\ Start(c, [Idle EXCEPT !.route = "publishPost", !.body = payload,
                             !.pc = "done", !.outcome = "next", !.reports = 1])
    /\ UNCHANGED <<pages, fsVars, crashed, histVars>>

----------------------------------------------------------------------------
(* Specifications *)

\* the page store endpoints
Next ==
    \E c \in Conns :
        \/ \E n \in PageNames : TemplateArrive(c, n)
        \/ \E n \in PageNames : PageArrive(c, n)
        \/ \E b \in UpdateBodies : UpdateArrive(c, b)
        \/ \E n \in PageNames : LoadArrive(c, n)
        \/ ResetArrive(c)
        \/ QuerySelect(c)
        \/ QueryInsert(c)
        \/ QueryDelete(c)
        \/ QueryFails(c)
        \/ TemplateResume(c)
        \/ PageResume(c)
        \/ UpdateResume(c)
        \/ LoadResume(c)
        \/ ResetResume(c)

Spec == Init /\ [][Next]_vars

\* the contents temp_publish may start with: left by earlier publishes
StalePool == {"index.html", "product.html", "logo.png"}

StaleDirs ==
    {[f \in S |-> "stale"] : S \in {T \in SUBSET StalePool : Cardinality(T) <= MaxStale}}

TemplateDirs ==
    { {"homepage.html", "product.html", "buynow.html", "index.js", "style.css"},
      {"homepage.html", "index.js"},
      {"product.html", "style.css", "publish.html"} }

PublishBodies == {[filename |-> PublishPath, content |-> "<h1>Hi</h1>"]}

PublishInit ==
    /\ pages = {}
    /\ templates \in TemplateDirs
    /\ tempDirExists \in BOOLEAN
    /\ staged \in IF tempDirExists THEN StaleDirs ELSE {EmptyDir}
    /\ zip = NoFile
    /\ req = [c \in Conns |-> Idle]
    /\ crashed = FALSE
    /\ saved = [n \in Names |-> ""]
    /\ resetClean = FALSE
    /\ hist = [c \in Conns |-> NoSnapshot]

\* GET /publish, with the saves that can shadow it
PublishNext ==
    \E c \in Conns :
        \/ PageArrive(c, PublishPath)
        \/ \E p \in PublishPayloads : PublishPost(c, p)
        \/ \E b \in PublishBodies : UpdateArrive(c, b)
        \/ QuerySelect(c)
        \/ QueryInsert(c)
        \/ QueryFails(c)
        \/ PageResume(c)
        \/ UpdateResume(c)
        \/ PublishRun(c)
        \/ PublishThrows(c)
        \/ ArchiveWrite(c)
        \/ ArchiveError(c)
        \/ OutputClose(c)
        \/ MailSent(c)
        \/ MailFails(c)

PublishSpec == PublishInit /\ [][PublishNext]_vars

\* names given to the four normalizing entry points
NormalizerInputs ==
    PageNames \cup {".html", "html", "a.html.html", "about.HTML", "index.htm"}

\* the four entry points on any of these names, the store staying empty
NormalizerNext ==
    \E c \in Conns :
        \/ \E n \in NormalizerInputs : TemplateArrive(c, n)
        \/ \E n \in NormalizerInputs : PageArrive(c, n)
        \/ \E n \in NormalizerInputs :
              UpdateArrive(c, [filename |-> n, content |-> "<h1>Hi</h1>"])
        \/ \E n \in NormalizerInputs : LoadArrive(c, n)
        \/ QuerySelect(c)
        \/ QueryFails(c)
        \/ TemplateResume(c)
        \/ PageResume(c)
        \/ UpdateResume(c)
        \/ LoadResume(c)

NormalizerSpec == Init /\ [][NormalizerNext]_vars

LifecycleBodies ==
    [filename : {"about"}, content : Contents]
        \cup {[filename |-> "product", content |-> "<h1>Hi</h1>"]}

\* every route of the server, on two pages
LifecycleNext ==
    \E c \in Conns :
        \/ TemplateArrive(c, "about")
        \/ \E n \in {"product", PublishPath} : PageArrive(c, n)
        \/ \E b \in LifecycleBodies : UpdateArrive(c, b)
        \/ LoadArrive(c, "about.html")
        \/ ResetArrive(c)
        \/ QuerySelect(c)
        \/ QueryInsert(c)
        \/ QueryDelete(c)
        \/ QueryFails(c)
        \/ TemplateResume(c)
        \/ PageResume(c)
        \/ UpdateResume(c)
        \/ LoadResume(c)
        \/ ResetResume(c)
        \/ PublishRun(c)
        \/ PublishThrows(c)
        \/ ArchiveWrite(c)
        \/ ArchiveError(c)
        \/ OutputClose(c)
        \/ MailSent(c)
        \/ MailFails(c)

LifecycleSpec == Init /\ [][LifecycleNext]_vars

\* a step of connection c other than the arrival of a request and a hang
Callback(c) ==
    \/ QuerySelect(c)
    \/ QueryInsert(c)
    \/ QueryDelete(c)
    \/ QueryFails(c)
    \/ TemplateResume(c)
    \/ PageResume(c)
    \/ UpdateResume(c)
    \/ LoadResume(c)
    \/ ResetResume(c)
    \/ PublishRun(c)
    \/ PublishThrows(c)
    \/ ArchiveWrite(c)
    \/ OutputClose(c)
    \/ MailSent(c)
    \/ MailFails(c)

\* every route, with publishes that may stall; archives do not fail here
HangNext ==
    \E c \in Conns :
        \/ TemplateArrive(c, "about")
        \/ PageArrive(c, PublishPath)
        \/ \E b \in PublishBodies : UpdateArrive(c, b)
        \/ LoadArrive(c, "about")
        \/ ResetArrive(c)
        \/ Callback(c)
        \/ Hangs(c)

\* the event loop runs every callback that stays pending
HangSpec ==
    Init /\ [][HangNext]_vars /\ \A c \in Conns : WF_vars(Callback(c))
----------------------------------------------------------------------------
(* Properties *)

Done(c) == req[c].pc = "done"

\* a read whose statement the pool executed without an error
ReadOk(c, routes) == Done(c) /\ req[c].route \in routes /\ req[c].err = ""

AnswersHtml(c, content) ==
    /\ req[c].outcome = "sent"
    /\ req[c].resp.status = 200
    /\ req[c].resp.type = "html"
    /\ req[c].resp.body.text = content

ServesStatic(c) ==
    /\ req[c].outcome = "sent"
    /\ req[c].resp.type = "file"
    /\ req[c].resp.body.path = "templates/" \o Key(req[c].param)

\* C1: when the store held a record under the request's normalized key as
\* the SELECT of GET /template/:filename or GET /:page ran (and the SELECT
\* succeeded), the response is that record's content, whether or not a
\* static file of that name exists; the static file is served only when no
\* record was stored.
C1_ResolverPriority ==
    \A c \in Conns :
        ReadOk(c, {"template", "page"}) =>
            /\ hist[c].stored # "" => AnswersHtml(c, hist[c].stored)
            /\ req[c].resp.type = "file" => hist[c].stored = "" /\ ServesStatic(c)

C1_Witness ==
    \E c \in Conns :
        /\ ReadOk(c, {"page"})
        /\ hist[c].stored # ""
        /\ Key(req[c].param) \in templates
        /\ AnswersHtml(c, hist[c].stored)

\* C2: a read (GET /:page, GET /template/:filename, GET /api/load/:id) of a
\* name under which content c was last saved, the name given with or without
\* the .html suffix, with no later save of that page and no reset, returns
\* exactly c.
C2_SaveReadRoundTrip ==
    \A c \in Conns :
        (ReadOk(c, {"template", "page", "load"}) /\ hist[c].expect # "") =>
            IF req[c].route = "load"
            THEN /\ req[c].resp.type = "json"
                 /\ req[c].resp.body = [success |-> TRUE, template |-> hist[c].expect]
            ELSE AnswersHtml(c, hist[c].expect)

C2_Witness ==
    \E c, d \in Conns :
        /\ ReadOk(c, {"load"})
        /\ req[c].param = "about.html"
        /\ Done(d) /\ req[d].route = "update" /\ req[d].resp.status = 200
        /\ req[d].body.filename = "about"
        /\ hist[c].expect = req[d].body.content
        /\ req[c].resp.body = [success |-> TRUE, template |-> req[d].body.content]

\* C3: from the DELETE of a successful /reset until the next INSERT the
\* table is empty, and a read whose SELECT runs in that time reports no
\* saved template (/api/load) or serves the static file or falls through
\* (/:page, /template), never stored content.
C3_Reset ==
    /\ resetClean => pages = {}
    /\ \A c \in Conns :
          (ReadOk(c, {"template", "page", "load"}) /\ hist[c].clean) =>
              /\ req[c].route = "load" =>
                    req[c].resp.body =
                        [success |-> FALSE, error |-> "No saved template found"]
              /\ req[c].route = "page" => req[c].outcome = "next" \/ ServesStatic(c)
              /\ req[c].route = "template" =>
                    \/ ServesStatic(c)
                    \/ AnswersHtml(c, NotFoundFragment(Key(req[c].param)))

\* an update that succeeded before the reset, and a load of its page after it
C3_Witness ==
    \E c, d \in Conns :
        /\ Done(d) /\ req[d].route = "update" /\ req[d].resp.status = 200
        /\ resetClean
        /\ ReadOk(c, {"load"}) /\ hist[c].clean
        /\ SameName(req[d].body.filename, req[c].param)
        /\ req[c].resp.body.success = FALSE

\* C4: with neither a stored record nor a static file under the normalized
\* key, and a successful SELECT, GET /template/:filename answers 200 with an
\* HTML fragment that contains the key, and GET /:page sends nothing and
\* calls next().
C4_ResolverFallback ==
    \A c \in Conns :
        (/\ ReadOk(c, {"template", "page"})
         /\ hist[c].stored = ""
         /\ Key(req[c].param) \notin templates) =>
            IF req[c].route = "template"
            THEN /\ req[c].outcome = "sent"
                 /\ req[c].resp.status = 200
                 /\ req[c].resp.type = "html"
                 /\ Contains(req[c].resp.body.text, Key(req[c].param))
            ELSE req[c].outcome = "next" /\ req[c].resp = NoResponse

C4_Witness ==
    \E c, d \in Conns :
        /\ ReadOk(c, {"template"}) /\ req[c].param = "about"
        /\ Contains(req[c].resp.body.text, "about.html")
        /\ ReadOk(d, {"page"}) /\ req[d].outcome = "next"

MissingOrEmpty(body, field) == field \notin DOMAIN body \/ body[field] = ""

InvalidUpdate(r) ==
    /\ r.route = "update"
    /\ MissingOrEmpty(r.body, "filename") \/ MissingOrEmpty(r.body, "content")

\* C5: a POST /update whose filename or content is missing or empty is
\* answered 400 by the step that receives it, so it never awaits a
\* statement, and that step leaves the table as it was.
C5_Validation ==
    /\ [](\A c \in Conns :
            InvalidUpdate(req[c]) =>
                /\ Done(c)
                /\ req[c].resp.status = 400
                /\ req[c].resp.body.success = FALSE
                /\ req[c].rows = <<>> /\ req[c].err = "")
    /\ [][\A c \in Conns :
            (req'[c] # req[c] /\ InvalidUpdate(req'[c])) => pages' = pages]_vars

C5_Witness ==
    \E c \in Conns :
        /\ InvalidUpdate(req[c])
        /\ "filename" \in DOMAIN req[c].body /\ req[c].body.filename # ""
        /\ req[c].resp.status = 400
        /\ pages # {}

\* C6 (as claimed): on every endpoint that queries the store a failing
\* statement yields a 500-class response with a generic message that does
\* not carry the driver's error detail.
C6_StorageErrors500 ==
    \A c \in Conns :
        (Done(c) /\ req[c].err = DriverError) =>
            /\ req[c].outcome = "sent"
            /\ req[c].resp.status >= 500
            /\ \A f \in DOMAIN req[c].resp.body \ {"success"} :
                  ~Contains(req[c].resp.body[f], DriverError)

Published(c) ==
    req[c].pc \in {"archiving", "finalized", "mailing", "failed"} \/ req[c].mail # "none"

\* C7: a publish request sends its mail and its confirmation only after its
\* output stream emitted close; while finalize() has been called and close
\* has not been emitted, no mail is being sent and nothing was answered.
C7_ArchiveCloseOrdering ==
    \A c \in Conns :
        /\ (req[c].mail # "none" \/ req[c].resp = MailConfirmation) => req[c].closed
        /\ (Published(c) /\ ~req[c].closed) =>
              req[c].mail = "none" /\ req[c].outcome = "none"

C7_Witness ==
    \E c \in Conns :
        req[c].mail = "sent" /\ req[c].closed /\ req[c].resp = MailConfirmation

Listed == {"homepage.html", "product.html", "buynow.html", "index.js", "style.css"}

\* C8: whatever temp_publish held before, right after the clear-and-copy
\* phase of a publish it holds exactly the listed files that exist in the
\* templates directory, each with the template's bytes; a missing listed
\* file is skipped and the publish goes on.
C8_StagingIsolation ==
    \A c \in Conns :
        Published(c) =>
            hist[c].assembled = [f \in Listed \cap templates |-> "templates/" \o f]

C8_Witness ==
    \E c \in Conns :
        /\ req[c].pc = "archiving"
        /\ templates = {"homepage.html", "index.js"}
        /\ DOMAIN hist[c].assembled = {"homepage.html", "index.js"}
        /\ staged = hist[c].assembled

\* C9: once the archive closed, a successful mail send is answered with the
\* confirmation and a failing one with a 500 "Error sending email", which is
\* not the general publish error; after the failure publish.zip is still on
\* disk.
C9_DispatcherOutcome ==
    \A c \in Conns :
        /\ req[c].mail = "sent" =>
              /\ req[c].closed
              /\ req[c].resp.status = 200
              /\ req[c].resp.body.text = "Published website sent to email!"
        /\ req[c].mail = "failed" =>
              /\ req[c].closed
              /\ req[c].resp.status = 500
              /\ req[c].resp.body.text = "Error sending email"
              /\ req[c].resp.body.text # "Error publishing website"
              /\ zip.exists

C9_Witness ==
    \E c \in Conns :
        /\ req[c].mail = "failed" /\ req[c].resp.status = 500
        /\ zip.exists /\ zip.by = c /\ zip.files = hist[c].assembled

\* C10 (as claimed): a publish whose archiver or output stream emitted an
\* error is answered with a 500-class response.
C10_PackagingError500 ==
    \A c \in Conns :
        req[c].pc = "failed" => req[c].outcome = "sent" /\ req[c].resp.status >= 500
Unescaped(hex) ==
    CASE hex = "3C" -> "<"
      [] hex = "3E" -> ">"
      [] hex = "2F" -> "/"
      [] hex = "7B" -> "{"
      [] hex = "7D" -> "}"
      [] OTHER -> "?"

RECURSIVE PercentDecoded(_)
PercentDecoded(s) ==
    IF s = "" THEN ""
    ELSE IF SubSeq(s, 1, 1) = "%" /\ Len(s) >= 3
    THEN Unescaped(SubSeq(s, 2, 3)) \o PercentDecoded(SubSeq(s, 4, Len(s)))
    ELSE SubSeq(s, 1, 1) \o PercentDecoded(SubSeq(s, 2, Len(s)))

\* C11: a POST /publish carrying {html, css, js, images} is answered with
\* success and no mail, after temp_publish was cleared and publish.zip was
\* written with the percent-decoded html as its index.html.
C11_DynamicPublish ==
    \A c \in Conns :
        (Done(c) /\ req[c].route = "publishPost") =>
            /\ req[c].outcome = "sent"
            /\ req[c].resp.status = 200
            /\ req[c].mail = "none"
            /\ zip.exists
            /\ "index.html" \in DOMAIN zip.files
            /\ zip.files["index.html"] = PercentDecoded(req[c].body.html)

\* a request that went through one of the four normalizing entry points
Normalized(c) ==
    /\ req[c].route \in {"template", "page", "update", "load"}
    /\ req[c].pc \in {"query", "resume", "done"}
    /\ req[c].param # ""

\* C12: the key an entry point computes for the name s is s when s ends in
\* ".html" and s followed by ".html" otherwise; normalizing that key again,
\* at any of the four entry points, gives the key back; two requests that
\* carry the same name have the same key, whichever entry points took them.
C12_Normalizer ==
    \A c \in Conns :
        Normalized(c) =>
            /\ req[c].key = IF EndsWith(req[c].param, ".html")
                            THEN req[c].param ELSE req[c].param \o ".html"
            /\ TemplateFilename(req[c].key) = req[c].key
            /\ PageFilename(req[c].key) = req[c].key
            /\ UpdateFilename(req[c].key) = req[c].key
            /\ LoadWebsiteId(req[c].key) = req[c].key
            /\ \A d \in Conns :
                  (Normalized(d) /\ req[d].param = req[c].param) =>
                      req[d].key = req[c].key

C12_Witness ==
    \E c, d \in Conns :
        /\ Normalized(c) /\ req[c].route = "load" /\ req[c].param = "about.HTML"
        /\ Normalized(d) /\ req[d].route = "update" /\ req[d].param = "about.HTML"
        /\ req[c].key = "about.HTML.html"
        /\ req[d].key = req[c].key

\* the statement of request c was executed without an error in this step
StoreStep(c) ==
    /\ req[c].pc = "query"
    /\ req'[c].pc = "resume"
    /\ req'[c].err = ""

RowsOf(table, k) == {row \in table : row.filename = k}

\* what a step may do to the table
LifecycleStep ==
    /\ pages' # pages =>
          \E c \in Conns : StoreStep(c) /\ req[c].route \in {"update", "reset"}
    /\ \A c \in Conns :
          (StoreStep(c) /\ req[c].route = "update") =>
              /\ RowsOf(pages', Key(req[c].body.filename)) =
                    {[filename |-> Key(req[c].body.filename),
                      content |-> req[c].body.content]}
              /\ \A row \in pages \cup pages' :
                    row.filename # Key(req[c].body.filename) =>
                        (row \in pages <=> row \in pages')
    /\ \A c \in Conns :
          (StoreStep(c) /\ req[c].route = "reset") => pages' = {}
    /\ \A c \in Conns :
          (req'[c] # req[c] /\ req[c].route \in {"template", "page", "load"}
              /\ req[c].pc # "done") => pages' = pages

\* C13: the table changes only in a step that executes the INSERT of an
\* /update or the DELETE of a /reset without error; the INSERT leaves exactly
\* one row under the request's key, carrying the request's content, and
\* every row of another key as it was; the DELETE leaves no row; no step of
\* a GET route or of the publish pipeline changes the table; no key ever has
\* two rows.
C13_PageRecordLifecycle ==
    /\ [](\A row \in pages : RowsOf(pages, row.filename) = {row})
    /\ [][LifecycleStep]_vars

C13_Witness ==
    \E c, d \in Conns :
        /\ Done(c) /\ req[c].route = "update" /\ req[c].resp.status = 200
        /\ req[c].body = [filename |-> "about", content |-> "<p>v2</p>"]
        /\ Done(d) /\ req[d].route = "page" /\ req[d].mail = "sent"
        /\ pages = {[filename |-> "about.html", content |-> "<p>v2</p>"],
                    [filename |-> "product.html", content |-> "<h1>Hi</h1>"]}

PublishRequest(c) == req[c].route = "page" /\ req[c].param = PublishPath

\* C14: every finished GET /publish was answered by the publish pipeline:
\* with the mail confirmation, the mail error or the publish error.
C14_PublishTrigger ==
    \A c \in Conns :
        (Done(c) /\ PublishRequest(c)) =>
            /\ req[c].outcome = "sent"
            /\ req[c].resp \in {MailConfirmation, MailErrorResponse, PublishError}

\* the archive of what request c staged, written in full by c itself
OwnArchive(c) ==
    [exists |-> TRUE, by |-> c, files |-> hist[c].assembled, complete |-> TRUE]

\* C15: a publish request mails something else than the archive of what it
\* staged only when another request cleared or refilled temp_publish, or
\* opened or wrote publish.zip, between this request's archive start and its
\* mail send; such an interleaving is reachable.
C15_PublishRace ==
    \A c \in Conns :
        (req[c].mail = "sent" /\ req[c].attached # OwnArchive(c)) => hist[c].raced

C15_Witness ==
    \E c \in Conns :
        /\ Done(c) /\ req[c].mail = "sent" /\ req[c].resp = MailConfirmation
        /\ hist[c].raced
        /\ req[c].attached.by # c
        /\ ~req[c].attached.complete
        /\ req[c].attached.files # hist[c].assembled

\* the INSERT of /update request c was executed without an error
Upserted(c) ==
    /\ req[c].route = "update"
    /\ req[c].pc \in {"resume", "done"}
    /\ req[c].key # ""
    /\ req[c].err = ""

\* C16: once the INSERTs of two /update requests for the same key have both
\* been executed, the table holds exactly one row under that key, and its
\* content is the content of the request whose INSERT ran last, which is the
\* content of one of the two.
C16_ConcurrentUpserts ==
    \A c, d \in Conns :
        (c # d /\ Upserted(c) /\ Upserted(d) /\ req[c].key = req[d].key) =>
            /\ RowsOf(pages, req[c].key) =
                  {[filename |-> req[c].key, content |-> saved[req[c].param]]}
            /\ saved[req[c].param] \in {req[c].body.content, req[d].body.content}

C16_Witness ==
    \E c, d \in Conns :
        /\ Upserted(c) /\ req[c].pc = "resume" /\ req[c].param = "about"
        /\ Upserted(d) /\ req[d].pc = "resume" /\ req[d].param = "about.html"
        /\ req[c].body.content # req[d].body.content
        /\ pages = {[filename |-> "about.html", content |-> req[d].body.content]}

\* C17: a request is answered or passed on at most once, and exactly once
\* when it has ended; its statement, its archive and its mail are each
\* started at most once, also after they failed.
C17_SingleReport ==
    \A c \in Conns :
        /\ req[c].reports <= 1
        /\ req[c].reports = 1 <=> Done(c)
        /\ req[c].reports = 1 <=> req[c].outcome # "none"
        /\ req[c].queries <= 1
        /\ req[c].archives <= 1
        /\ req[c].mails <= 1

C17_Witness ==
    \E c, d \in Conns :
        /\ Done(c) /\ PublishRequest(c) /\ req[c].mail = "failed"
        /\ req[c].resp = MailErrorResponse
        /\ req[c].reports = 1 /\ req[c].queries = 1
        /\ req[c].archives = 1 /\ req[c].mails = 1
        /\ Done(d) /\ req[d].route = "load" /\ req[d].err = DriverError
        /\ req[d].reports = 1 /\ req[d].queries = 1

InFlight(c) == req[c].pc \notin {"idle", "done", "hung"}

\* C18: a publish request whose archive never closes or whose mail never
\* returns stays unanswered for ever; every other request in flight is
\* answered in the end, unless it stalls in the same way itself.
C18_HangIsolation ==
    /\ \A c \in Conns :
          [](req[c].pc = "hung" => [](req[c].pc = "hung" /\ req[c].outcome = "none"))
    /\ \A c \in Conns : InFlight(c) ~> (Done(c) \/ req[c].pc = "hung")

C18_Witness ==
    \E c, d \in Conns :
        /\ req[c].pc = "hung" /\ req[c].mail = "sending"
        /\ Done(d) /\ PublishRequest(d) /\ req[d].resp = MailConfirmation
        /\ req[d].attached.by = d

\* C19: two finished GET /publish requests, neither of which met a failing
\* query or a failing file operation, staged the same files, whatever the
\* table held when each of them ran.
C19_PublishIndependentOfStore ==
    \A c, d \in Conns :
        (/\ Done(c) /\ PublishRequest(c)
         /\ Done(d) /\ PublishRequest(d)
         /\ req[c].err # DriverError /\ req[d].err # DriverError
         /\ req[c].resp # PublishError /\ req[d].resp # PublishError) =>
            hist[c].assembled = hist[d].assembled

====
